---- MODULE Spec2Model ----
(***************************************************************************)
(* Model of the client-side core of the concentrated-liquidity AMM         *)
(* (client/src/lib.rs) and of the support-mint registration instruction    *)
(* (programs/amm/src/instructions/admin/create_support_mint_associated.rs).*)
(*                                                                         *)
(* Four operations are modelled, each under its own specification:         *)
(*   SpecCfg   load_cfg (pool address derivation from a mint pair)         *)
(*   SpecNav   load_cur_and_next_five_tick_array (tick-array navigator)    *)
(*   SpecEnum  get_nft_account_and_position_by_owner and                   *)
(*             get_all_nft_and_position_by_owner (position enumerator)     *)
(*   SpecMint  create_support_mint_associated (on-chain instruction)       *)
(*                                                                         *)
(* A Rust panic (unwrap on Err/None, panic!) is the outcome "panic": the   *)
(* call produces no value.                                                 *)
(***************************************************************************)
EXTENDS Integers, Sequences, FiniteSets, TLC

VARIABLES
    cfg,        \* load_cfg: last call's inputs and outcome
    nav,        \* navigator: position in the call, inputs, locals, outcome
    enum,       \* enumerator: last call's inputs and outcome
    ledger,     \* on-chain SupportMintAssociated accounts, by token mint
    ix          \* last create_support_mint_associated call and its result

vars == <<cfg, nav, enum, ledger, ix>>

\* Option<T>: None is the empty tuple, Some(v) the one-element tuple.
None == <<>>
Some(v) == <<v>>
Unwrap(o) == o[1]

(***************************************************************************)
(* Bounds of the model.                                                    *)
(***************************************************************************)
\* A Pubkey is PubkeyLen bytes, each in 0..MaxByte (32 bytes of 0..255 in the program).
PubkeyLen == 2
MaxByte == 1
\* Tick-array offsets -ArrayRange .. ArrayRange-1 exist in the pool's tick range.
ArrayRange == 4
\* The pool's inline bitmap covers offsets -InlineHalf .. InlineHalf-1; the
\* extension bitmap covers the rest.
InlineHalf == 2
\* Longest token-account list one query returns.
MaxAccounts == 3

(***************************************************************************)
(* Pubkeys, strings and address derivation.                                *)
(***************************************************************************)
Bytes == 0..MaxByte
Pubkeys == [1..PubkeyLen -> Bytes]

\* Ord for Pubkey: lexicographic comparison of the raw bytes.
RECURSIVE BytesGt(_, _, _)
BytesGt(a, b, i) ==
    IF i > Len(a) THEN FALSE
    ELSE IF a[i] # b[i] THEN a[i] > b[i]
    ELSE BytesGt(a, b, i + 1)

PubkeyGt(a, b) == BytesGt(a, b, 1)

\* Base-58 text of a key: one character per byte here, "1" is digit 0, "2"
\* digit 1 and so on; "0" is not a base-58 character.
Base58Alphabet == <<"1", "2", "3", "4">>
Base58Chars == {Base58Alphabet[i] : i \in 1..(MaxByte + 1)}
Base58Digit(c) == (CHOOSE i \in 1..Len(Base58Alphabet) : Base58Alphabet[i] = c) - 1

\* Pubkey::from_str / str::parse::<Pubkey>: Err on a wrong length or a
\* character outside the alphabet.
ParsePubkey(s) ==
    IF Len(s) = PubkeyLen /\ \A i \in 1..Len(s) : s[i] \in Base58Chars
    THEN [ok |-> TRUE, val |-> [i \in 1..PubkeyLen |-> Base58Digit(s[i])]]
    ELSE [ok |-> FALSE]

\* Pubkey::to_string, the inverse on valid keys.
PubkeyToString(k) == [i \in 1..PubkeyLen |-> Base58Alphabet[k[i] + 1]]

\* Seed domain tags.
AMM_CONFIG_SEED == "amm_config"
POOL_SEED == "pool"
POOL_TICK_ARRAY_BITMAP_SEED == "pool_tick_array_bitmap_extension"
TICK_ARRAY_SEED == "tick_array"
POSITION_SEED == "position"
SUPPORT_MINT_SEED == "support_mint"

\* Stand-in for "the candidate address is not on the ed25519 curve".
OffCurve(seeds, program, bump) == (bump + Len(seeds)) % 3 # 0

RECURSIVE BumpSearch(_, _, _)
BumpSearch(seeds, program, bump) ==
    IF bump = 0 \/ OffCurve(seeds, program, bump) THEN bump
    ELSE BumpSearch(seeds, program, bump - 1)

\* Pubkey::find_program_address: a collision-free function of the seed tuple
\* and the program id, with the first bump (from 255 down) that is off-curve.
FindProgramAddress(seeds, program) ==
    [address |-> [seeds |-> seeds, program |-> program],
     bump    |-> BumpSearch(seeds, program, 255)]

\* u16::to_be_bytes
U16ToBeBytes(n) == <<(n \div 256) % 256, n % 256>>

\* i32::to_be_bytes: two's complement, most significant byte first (the
\* arithmetic shift n >> 8k is the floored quotient by 256^k).
I32ToBeBytes(n) ==
    <<(n \div 16777216) % 256, (n \div 65536) % 256, (n \div 256) % 256, n % 256>>

\* i32::from_be_bytes: the top byte carries the sign.
I32FromBeBytes(b) ==
    LET top == IF b[1] >= 128 THEN b[1] - 256 ELSE b[1]
    IN  ((top * 256 + b[2]) * 256 + b[3]) * 256 + b[4]

Programs == {"amm_v3", "amm_v3_devnet"}

(***************************************************************************)
(* load_cfg                                                                *)
(***************************************************************************)
\* Texts the [Pool] mint0 / mint1 entries take: empty, valid keys, bad keys.
MintStrings ==
    {<<>>, <<"1", "0">>, <<"2">>} \cup {PubkeyToString(k) : k \in Pubkeys}

ConfigIndexes == {0, 3, 256}

\* mint0 > mint1 { swap } of load_cfg, without the comparison.
SortMints_NoSwap(mint0, mint1) == <<mint0, mint1>>

\* The swap that puts the lower-sorting mint first.
SortMints(mint0, mint1) ==
    IF PubkeyGt(mint0, mint1) THEN <<mint1, mint0>> ELSE <<mint0, mint1>>

\* The part of load_cfg from the mint entries on; the [Global] entries are
\* taken as present and valid.
load_cfg(raydium_v3_program, mint0_str, mint1_str, amm_config_index) ==
    LET p0 == ParsePubkey(mint0_str)
        p1 == ParsePubkey(mint1_str)
        amm_config_key ==
            FindProgramAddress(<<AMM_CONFIG_SEED, U16ToBeBytes(amm_config_index)>>,
                               raydium_v3_program).address
    IN  IF (mint0_str # <<>> /\ ~p0.ok) \/ (mint1_str # <<>> /\ ~p1.ok)
        THEN [outcome |-> "panic"]
        ELSE
        LET mint0 == IF mint0_str # <<>> THEN Some(p0.val) ELSE None
            mint1 == IF mint1_str # <<>> THEN Some(p1.val) ELSE None
            both == mint0 # None /\ mint1 # None
            sorted ==
                IF both
                THEN LET s == SortMints(Unwrap(mint0), Unwrap(mint1))
                     IN  <<Some(s[1]), Some(s[2])>>
                ELSE <<mint0, mint1>>
            pool_id_account ==
                IF both
                THEN Some(FindProgramAddress(
                        <<POOL_SEED, amm_config_key, Unwrap(sorted[1]),
                          Unwrap(sorted[2])>>,
                        raydium_v3_program).address)
                ELSE None
            tickarray_bitmap_extension ==
                IF pool_id_account # None
                THEN Some(FindProgramAddress(
                        <<POOL_TICK_ARRAY_BITMAP_SEED, Unwrap(pool_id_account)>>,
                        raydium_v3_program).address)
                ELSE None
        IN  [outcome |-> "ok",
             raydium_v3_program |-> raydium_v3_program,
             amm_config_key |-> amm_config_key,
             mint0 |-> sorted[1],
             mint1 |-> sorted[2],
             pool_id_account |-> pool_id_account,
             tickarray_bitmap_extension |-> tickarray_bitmap_extension,
             amm_config_index |-> amm_config_index]

CfgIdle == [called |-> FALSE]

\* One call of load_cfg on a configuration file.
LoadCfg ==
    /\ ~cfg.called
    /\ \E program \in Programs, m0 \in MintStrings, m1 \in MintStrings,
          index \in ConfigIndexes :
          cfg' = [called |-> TRUE, program |-> program, mint0_str |-> m0,
                  mint1_str |-> m1, index |-> index,
                  result |-> load_cfg(program, m0, m1, index)]
    /\ UNCHANGED <<nav, enum, ledger, ix>>

(***************************************************************************)
(* Pool bitmap and the navigation primitives of PoolState.                 *)
(***************************************************************************)
\* Ticks per tick array, before scaling by the tick spacing.
TICK_ARRAY_SIZE == 60

TickSpacings == {1, 10}

\* TickArrayState::tick_count: tick indices one array spans.
tick_count(tick_spacing) == TICK_ARRAY_SIZE * tick_spacing

Offsets == (-ArrayRange)..(ArrayRange - 1)
InlineOffsets == {o \in Offsets : -InlineHalf <= o /\ o < InlineHalf}
ExtensionOffsets == Offsets \ InlineOffsets

\* Rust's integer division and remainder: truncation toward zero.
TruncDiv(a, b) == IF a >= 0 THEN a \div b ELSE -((-a) \div b)
TruncRem(a, b) == a - b * TruncDiv(a, b)

\* The start index with the quotient truncated toward zero.
get_array_start_index_Truncating(tick_index, tick_spacing) ==
    TruncDiv(tick_index, tick_count(tick_spacing)) * tick_count(tick_spacing)

\* TickArrayState::get_array_start_index: the quotient is truncated and then
\* lowered by one for a negative tick that is no multiple of the array span.
get_array_start_index(tick_index, tick_spacing) ==
    LET ticks_in_array == tick_count(tick_spacing)
        q == TruncDiv(tick_index, ticks_in_array)
        start == IF tick_index < 0 /\ TruncRem(tick_index, ticks_in_array) # 0
                 THEN q - 1 ELSE q
    IN  start * ticks_in_array

\* The bit of a tick array: in the pool's inline bitmap, or in the extension
\* when the array lies outside the inline range.
check_tick_array_is_initialized(pool_state, extension, start_index) ==
    LET o == start_index \div tick_count(pool_state.tick_spacing)
    IN  IF o \in InlineOffsets THEN o \in pool_state.tick_array_bitmap
        ELSE o \in extension

\* PoolState::next_initialized_tick_array_start_index: the nearest
\* initialized array strictly below (zero_for_one) or above the given one,
\* scanning across the inline/extension seam; None when the range is exhausted.
RECURSIVE next_initialized_tick_array_start_index(_, _, _, _)
next_initialized_tick_array_start_index(pool_state, extension, last_start, zero_for_one) ==
    LET w == tick_count(pool_state.tick_spacing)
        next == IF zero_for_one THEN last_start - w ELSE last_start + w
    IN  IF (next \div w) \notin Offsets THEN None
        ELSE IF check_tick_array_is_initialized(pool_state, extension, next)
        THEN Some(next)
        ELSE next_initialized_tick_array_start_index(pool_state, extension, next,
                                                     zero_for_one)

\* PoolState::get_first_initialized_tick_array: the array holding the current
\* tick when its bit is set, else the next initialized one in the direction;
\* Err when there is none.
get_first_initialized_tick_array(pool_state, extension, zero_for_one) ==
    LET start == get_array_start_index(pool_state.tick_current, pool_state.tick_spacing)
    IN  IF check_tick_array_is_initialized(pool_state, extension, start)
        THEN [ok |-> TRUE, val |-> <<TRUE, start>>]
        ELSE LET next == next_initialized_tick_array_start_index(
                            pool_state, extension, start, zero_for_one)
             IN  IF next = None THEN [ok |-> FALSE]
                 ELSE [ok |-> TRUE, val |-> <<FALSE, Unwrap(next)>>]

(***************************************************************************)
(* load_cur_and_next_five_tick_array                                       *)
(***************************************************************************)
\* Address of the tick array of a pool at a start index.
TickArrayKey(pool_config, start_index) ==
    FindProgramAddress(
        <<TICK_ARRAY_SEED, Unwrap(pool_config.pool_id_account),
          I32ToBeBytes(start_index)>>,
        pool_config.raydium_v3_program).address

\* The while loop without the max_array_size countdown.
RECURSIVE NextTickArrayKeys_Unbounded(_, _, _, _, _, _, _)
NextTickArrayKeys_Unbounded(pool_config, pool_state, extension, zero_for_one, current, tick_array_keys, max_array_size) ==
    LET next == next_initialized_tick_array_start_index(
                    pool_state, extension, current, zero_for_one)
    IN  IF next = None THEN tick_array_keys
        ELSE NextTickArrayKeys_Unbounded(
                pool_config, pool_state, extension, zero_for_one, Unwrap(next),
                Append(tick_array_keys, TickArrayKey(pool_config, Unwrap(next))),
                max_array_size)

\* The while loop: up to max_array_size further keys, ended early by None.
RECURSIVE NextTickArrayKeys(_, _, _, _, _, _, _)
NextTickArrayKeys(pool_config, pool_state, extension, zero_for_one, current, tick_array_keys, max_array_size) ==
    IF max_array_size = 0 THEN tick_array_keys
    ELSE
    LET next == next_initialized_tick_array_start_index(
                    pool_state, extension, current, zero_for_one)
    IN  IF next = None THEN tick_array_keys
        ELSE NextTickArrayKeys(
                pool_config, pool_state, extension, zero_for_one, Unwrap(next),
                Append(tick_array_keys, TickArrayKey(pool_config, Unwrap(next))),
                max_array_size - 1)

\* Lines 207-245: the first initialized array, then the loop. Both unwraps
\* (the Result of the first lookup, the Option pool_id_account) panic.
ResolveTickArrayKeys(pool_config, pool_state, extension, zero_for_one) ==
    LET first == get_first_initialized_tick_array(pool_state, extension, zero_for_one)
    IN  IF ~first.ok \/ pool_config.pool_id_account = None
        THEN [outcome |-> "panic"]
        ELSE [outcome |-> "ok",
              keys |-> NextTickArrayKeys(
                          pool_config, pool_state, extension, zero_for_one,
                          first.val[2],
                          <<TickArrayKey(pool_config, first.val[2])>>, 5)]

\* The start index a tick-array address was derived from.
StartIndexOfKey(key) == I32FromBeBytes(key.seeds[3])

\* The account the ledger holds at a tick-array address.
TickArrayAccountAt(key) ==
    [discriminator |-> "TickArrayState",
     pool_id |-> key.seeds[2],
     start_tick_index |-> StartIndexOfKey(key)]

\* deserialize_anchor_account::<TickArrayState>: Err on another record type.
deserialize_anchor_account(account) ==
    IF account.discriminator = "TickArrayState"
    THEN [ok |-> TRUE,
          val |-> [pool_id |-> account.pool_id,
                   start_tick_index |-> account.start_tick_index]]
    ELSE [ok |-> FALSE]

\* The decode loop without the unwraps, in reverse order of arrival.
RECURSIVE DecodeTickArrays_Reversed(_)
DecodeTickArrays_Reversed(rsps) ==
    IF rsps = <<>> THEN <<>>
    ELSE Append(DecodeTickArrays_Reversed(Tail(rsps)),
                deserialize_anchor_account(Unwrap(Head(rsps))).val)

\* The decode loop (push_back per response) on responses that all unwrap.
DecodeTickArrays(rsps) ==
    [i \in 1..Len(rsps) |-> deserialize_anchor_account(Unwrap(rsps[i])).val]

TickSamples(tick_spacing) ==
    {o * tick_count(tick_spacing) + d :
        o \in {-ArrayRange, -1, 0, ArrayRange - 1},
        d \in {0, tick_count(tick_spacing) - 1}} \cup {-120}

PoolStates ==
    UNION {{[tick_current |-> t, tick_spacing |-> sp, tick_array_bitmap |-> b] :
                t \in TickSamples(sp), b \in SUBSET InlineOffsets} :
           sp \in TickSpacings}

\* Client configurations handed to the navigator: with and without a mint pair.
PoolConfigs ==
    {load_cfg("amm_v3", PubkeyToString([i \in 1..PubkeyLen |-> 0]), m1, 3) :
        m1 \in {<<>>, PubkeyToString([i \in 1..PubkeyLen |-> 1])}}

NavIdle == [pc |-> "idle"]

\* Lines 207-245: resolve every tick-array address from the bitmaps.
NavResolve ==
    /\ nav.pc = "idle"
    /\ \E pool_config \in PoolConfigs, pool_state \in PoolStates,
          extension \in SUBSET ExtensionOffsets, zero_for_one \in BOOLEAN :
          LET r == ResolveTickArrayKeys(pool_config, pool_state, extension,
                                        zero_for_one)
              in == [pool_config |-> pool_config, pool_state |-> pool_state,
                     extension |-> extension, zero_for_one |-> zero_for_one,
                     rpc_calls |-> 0, fetch |-> "none"]
          IN  nav' = IF r.outcome = "panic"
                     THEN in @@ [pc |-> "panic"]
                     ELSE in @@ [pc |-> "resolved", tick_array_keys |-> r.keys]
    /\ UNCHANGED <<cfg, enum, ledger, ix>>

\* What get_multiple_accounts answers for a key list: Err, or one Option per
\* key in key order, where one entry may be missing (None) or hold an account
\* of another type.
FetchAnswers(keys) ==
    {[ok |-> FALSE]} \cup
    {[ok |-> TRUE,
      val |-> [i \in 1..Len(keys) |->
                  IF i = bad /\ kind = "missing" THEN None
                  ELSE IF i = bad /\ kind = "other_type"
                  THEN Some([discriminator |-> "PoolState"])
                  ELSE Some(TickArrayAccountAt(keys[i]))]] :
        bad \in {0, 1, Len(keys)}, kind \in {"missing", "other_type"}}

\* Line 246: the one batched fetch; its unwrap panics on Err.
NavFetch ==
    /\ nav.pc = "resolved"
    /\ \E answer \in FetchAnswers(nav.tick_array_keys) :
          nav' = IF answer.ok
                 THEN [nav EXCEPT !.pc = "fetched", !.rpc_calls = @ + 1,
                                  !.fetch = "answered"]
                      @@ [tick_array_rsps |-> answer.val]
                 ELSE [nav EXCEPT !.pc = "panic", !.rpc_calls = @ + 1,
                                  !.fetch = "transport_error"]
    /\ UNCHANGED <<cfg, enum, ledger, ix>>

\* Lines 247-256: decode every response in order; unwrap panics on a missing
\* account and on a decode error.
NavDecode ==
    /\ nav.pc = "fetched"
    /\ LET rsps == nav.tick_array_rsps
           bad == \E i \in 1..Len(rsps) :
                     \/ rsps[i] = None
                     \/ ~deserialize_anchor_account(Unwrap(rsps[i])).ok
       IN  nav' = IF bad THEN [nav EXCEPT !.pc = "panic"]
                  ELSE [nav EXCEPT !.pc = "done"]
                       @@ [tick_arrays |-> DecodeTickArrays(rsps)]
    /\ UNCHANGED <<cfg, enum, ledger, ix>>

(***************************************************************************)
(* get_nft_account_and_position_by_owner, get_all_nft_and_position_by_owner*)
(***************************************************************************)
spl_token_id == "spl_token"
spl_token_2022_id == "spl_token_2022"

KeyA == [i \in 1..PubkeyLen |-> 0]
KeyB == [i \in 1..PubkeyLen |-> IF i = 1 THEN 1 ELSE 0]
KeyC == [i \in 1..PubkeyLen |-> 1]
OwnerKey == [i \in 1..PubkeyLen |-> IF i = 1 THEN 0 ELSE 1]

\* str::parse::<u64>: Err on the empty string and on a non-digit. (Overflow
\* of u64 needs 20 digits or more and is beyond the strings drawn here.)
DecimalDigits == <<"0", "1", "2", "3", "4", "5", "6", "7", "8", "9">>
DigitValue(c) == (CHOOSE i \in 1..10 : DecimalDigits[i] = c) - 1
IsDigit(c) == \E i \in 1..10 : DecimalDigits[i] = c

RECURSIVE DecimalValue(_)
DecimalValue(s) ==
    IF s = <<>> THEN 0
    ELSE DecimalValue(SubSeq(s, 1, Len(s) - 1)) * 10 + DigitValue(s[Len(s)])

ParseU64(s) ==
    IF s # <<>> /\ \A i \in 1..Len(s) : IsDigit(s[i])
    THEN [ok |-> TRUE, val |-> DecimalValue(s)]
    ELSE [ok |-> FALSE]

\* A keyed token account as the RPC node reports it: data is "json"
\* (UiAccountData::Json) or "binary"; program is the parsed-account tag;
\* parsed is what serde_json::from_value makes of the body ("account" for
\* TokenAccountType::Account, "mint" for another variant, "invalid" for Err).
KeyedAccount(pubkey, data, program, parsed, mint, amount, decimals, close_authority) ==
    [pubkey |-> pubkey, data |-> data, program |-> program, parsed |-> parsed,
     mint |-> mint, amount |-> amount, decimals |-> decimals,
     close_authority |-> close_authority]

\* Token accounts whose every field is well formed.
WellFormedAccounts ==
    {KeyedAccount(PubkeyToString(k), "json", "spl-token", "account",
                  PubkeyToString(m), a, d, None) :
        k \in {KeyA, KeyB}, m \in {KeyA, KeyC},
        a \in {<<"0">>, <<"1">>, <<"2">>, <<"1", "0">>}, d \in {0, 9}}
    \cup
    {KeyedAccount(PubkeyToString(KeyC), "json", "spl-token-2022", "account",
                  PubkeyToString(KeyB), <<"1">>, 0, Some(PubkeyToString(KeyA)))}

\* Records the loop skips: not JSON, an unknown program tag, a body that is
\* no token account.
SkippedAccounts ==
    {KeyedAccount(PubkeyToString(KeyC), "binary", "spl-token", "account",
                  PubkeyToString(KeyA), <<"1">>, 0, None),
     KeyedAccount(PubkeyToString(KeyC), "json", "stake", "account",
                  PubkeyToString(KeyA), <<"1">>, 0, None),
     KeyedAccount(PubkeyToString(KeyC), "json", "spl-token", "mint",
                  PubkeyToString(KeyA), <<"1">>, 0, None),
     KeyedAccount(PubkeyToString(KeyC), "json", "spl-token", "invalid",
                  <<"0">>, <<"x">>, 0, None)}

\* Token accounts with one string field that does not parse.
InvalidFieldAccounts ==
    {KeyedAccount(PubkeyToString(KeyC), "json", "spl-token", "account",
                  <<"0">>, <<"1">>, 0, None),
     KeyedAccount(<<"0">>, "json", "spl-token", "account",
                  PubkeyToString(KeyA), <<"1">>, 0, None),
     KeyedAccount(PubkeyToString(KeyC), "json", "spl-token", "account",
                  PubkeyToString(KeyA), <<"x">>, 0, None),
     KeyedAccount(PubkeyToString(KeyC), "json", "spl-token", "account",
                  PubkeyToString(KeyA), <<>>, 9, None),
     KeyedAccount(PubkeyToString(KeyC), "json", "spl-token", "account",
                  PubkeyToString(KeyA), <<"1">>, 0, Some(<<"0">>))}

KeyedAccounts == WellFormedAccounts \cup SkippedAccounts \cup InvalidFieldAccounts

\* Lists of at most n records of a pool, no address listed twice.
ListsOf(pool, n) ==
    UNION {{l \in [1..k -> pool] :
                \A i, j \in 1..k : i # j => l[i].pubkey # l[j].pubkey} :
           k \in 0..n}

\* The filter with the amount test alone.
IsPositionNft_AmountOnly(decimals, token_amount) == token_amount = 1

\* Line 316: a position NFT has decimals 0 and amount 1.
IsPositionNft(decimals, token_amount) == decimals = 0 /\ token_amount = 1

\* The body of the for loop for one keyed account: "skip", "panic", or the
\* PositionNftTokenInfo to push.
ScanOne(keyed_account, token_program, raydium_amm_v3_program) ==
    IF keyed_account.data # "json" THEN [step |-> "skip"]
    ELSE IF keyed_account.program \notin {"spl-token", "spl-token-2022"}
    THEN [step |-> "skip"]
    ELSE IF keyed_account.parsed # "account" THEN [step |-> "skip"]
    ELSE
    LET token == ParsePubkey(keyed_account.mint)
        token_account == ParsePubkey(keyed_account.pubkey)
        token_amount == ParseU64(keyed_account.amount)
        close_ok == \/ keyed_account.close_authority = None
                    \/ ParsePubkey(Unwrap(keyed_account.close_authority)).ok
    IN  IF ~token.ok \/ ~token_account.ok \/ ~token_amount.ok \/ ~close_ok
        THEN [step |-> "panic"]
        ELSE IF IsPositionNft(keyed_account.decimals, token_amount.val)
        THEN [step |-> "push",
              info |-> [key |-> token_account.val,
                        program |-> token_program,
                        position |-> FindProgramAddress(
                                        <<POSITION_SEED, token.val>>,
                                        raydium_amm_v3_program).address,
                        mint |-> token.val,
                        amount |-> token_amount.val,
                        decimals |-> keyed_account.decimals]]
        ELSE [step |-> "skip"]

\* Lines 289-337: the loop over all_tokens, in order; a panic in any
\* iteration ends the call without a value.
ScanTokenAccounts(all_tokens, token_program, raydium_amm_v3_program) ==
    LET Scan[i \in 0..Len(all_tokens)] ==
            IF i = 0 THEN [outcome |-> "ok", val |-> <<>>]
            ELSE LET before == Scan[i - 1]
                     one == ScanOne(all_tokens[i], token_program,
                                    raydium_amm_v3_program)
                 IN  IF before.outcome = "panic" \/ one.step = "panic"
                     THEN [outcome |-> "panic"]
                     ELSE IF one.step = "push"
                     THEN [outcome |-> "ok", val |-> Append(before.val, one.info)]
                     ELSE before
    IN  Scan[Len(all_tokens)]

\* get_nft_account_and_position_by_owner on the answer of its one
\* get_token_accounts_by_owner request; the unwrap panics on Err.
get_nft_account_and_position_by_owner(answer, token_program, raydium_amm_v3_program) ==
    IF ~answer.ok THEN [outcome |-> "panic"]
    ELSE ScanTokenAccounts(answer.val, token_program, raydium_amm_v3_program)

\* get_all_nft_and_position_by_owner that returns the legacy list alone.
get_all_nft_and_position_by_owner_NoExtend(answers, raydium_amm_v3_program) ==
    LET spl_nfts == get_nft_account_and_position_by_owner(
                        answers[1], spl_token_id, raydium_amm_v3_program)
        spl_2022_nfts == get_nft_account_and_position_by_owner(
                        answers[2], spl_token_2022_id, raydium_amm_v3_program)
    IN  IF spl_nfts.outcome = "panic" THEN [outcome |-> "panic", rpc_calls |-> 1]
        ELSE IF spl_2022_nfts.outcome = "panic"
        THEN [outcome |-> "panic", rpc_calls |-> 2]
        ELSE [outcome |-> "ok", rpc_calls |-> 2, val |-> spl_nfts.val]

\* get_all_nft_and_position_by_owner: the legacy query, then the token-2022
\* query, then extend. answers[1] and answers[2] are what the node answers
\* to the two requests; the second is not made when the first call panics.
get_all_nft_and_position_by_owner(answers, raydium_amm_v3_program) ==
    LET spl_nfts == get_nft_account_and_position_by_owner(
                        answers[1], spl_token_id, raydium_amm_v3_program)
        spl_2022_nfts == get_nft_account_and_position_by_owner(
                        answers[2], spl_token_2022_id, raydium_amm_v3_program)
    IN  IF spl_nfts.outcome = "panic" THEN [outcome |-> "panic", rpc_calls |-> 1]
        ELSE IF spl_2022_nfts.outcome = "panic"
        THEN [outcome |-> "panic", rpc_calls |-> 2]
        ELSE [outcome |-> "ok", rpc_calls |-> 2,
              val |-> spl_nfts.val \o spl_2022_nfts.val]

\* Answers of get_token_accounts_by_owner: Err or a list of keyed accounts.
TokenAnswers(pool) ==
    {[ok |-> FALSE]} \cup {[ok |-> TRUE, val |-> l] : l \in ListsOf(pool, MaxAccounts)}

\* Records drawn for the two-variant listing.
UnionAccounts ==
    {KeyedAccount(PubkeyToString(KeyA), "json", "spl-token", "account",
                  PubkeyToString(KeyA), <<"1">>, 0, None),
     KeyedAccount(PubkeyToString(KeyB), "json", "spl-token-2022", "account",
                  PubkeyToString(KeyC), <<"1">>, 0, None),
     KeyedAccount(PubkeyToString(KeyC), "json", "spl-token", "account",
                  PubkeyToString(KeyB), <<"2">>, 0, None),
     KeyedAccount(PubkeyToString(KeyC), "json", "spl-token", "account",
                  PubkeyToString(KeyB), <<"1">>, 9, None),
     KeyedAccount(PubkeyToString(KeyC), "json", "spl-token", "account",
                  <<"0">>, <<"1">>, 0, None)}

\* One call of get_nft_account_and_position_by_owner.
GetNftByOwner ==
    /\ ~enum.called
    /\ \E token_program \in {spl_token_id, spl_token_2022_id},
          answer \in TokenAnswers(KeyedAccounts) :
          enum' = [called |-> TRUE, op |-> "by_owner",
                   token_program |-> token_program,
                   answers |-> <<answer>>,
                   rpc_calls |-> 1,
                   result |-> get_nft_account_and_position_by_owner(
                                 answer, token_program, "amm_v3")]
    /\ UNCHANGED <<cfg, nav, ledger, ix>>

\* One call of get_all_nft_and_position_by_owner.
GetAllNftByOwner ==
    /\ ~enum.called
    /\ \E a1 \in TokenAnswers(UnionAccounts), a2 \in TokenAnswers(UnionAccounts) :
          LET r == get_all_nft_and_position_by_owner(<<a1, a2>>, "amm_v3")
          IN  enum' = [called |-> TRUE, op |-> "all",
                       token_program |-> "both",
                       answers |-> IF r.rpc_calls = 1 THEN <<a1>> ELSE <<a1, a2>>,
                       rpc_calls |-> r.rpc_calls,
                       result |-> r]
    /\ UNCHANGED <<cfg, nav, ledger, ix>>

(***************************************************************************)
(* create_support_mint_associated                                          *)
(***************************************************************************)
admin_ID == "admin"
create_support_mint_associated_owner_ID == "create_support_mint_associated_owner"
token_2022_ID == "token_2022"
token_ID == "token"

Signers == {admin_ID, create_support_mint_associated_owner_ID, "other_signer"}
\* Programs that own a token mint account (InterfaceAccount<Mint>).
MintOwners == {token_2022_ID, token_ID}
TokenMints == {KeyA, KeyB, KeyC}

\* PDA of the SupportMintAssociated account of a mint.
SupportMintPda(token_mint) ==
    FindProgramAddress(<<SUPPORT_MINT_SEED, token_mint>>, "amm_v3")

\* The owner constraint without the signer identity test.
OwnerApproved_Anyone(owner) == TRUE

\* Line 20: the signer is the admin or the designated support-mint owner.
OwnerApproved(owner) ==
    owner = admin_ID \/ owner = create_support_mint_associated_owner_ID

\* Line 25: the mint account is owned by the token-2022 program.
MintApproved(mint_owner) == mint_owner = token_2022_ID

\* Account validation of CreateSupportMintAssociated: the errors the call can
\* end with (none when it passes). `init` fails when the account at the PDA
\* already exists; when several checks fail, the one reported is the
\* framework's choice.
ValidationErrors(accounts, owner, token_mint, mint_owner) ==
    (IF OwnerApproved(owner) /\ MintApproved(mint_owner) THEN {}
     ELSE {"NotApproved"})
    \cup
    (IF accounts[token_mint] # None THEN {"AccountAlreadyInUse"} ELSE {})

\* Lines 44-50: the handler stores the bump and the mint in the new account.
create_support_mint_associated(token_mint) ==
    [bump |-> SupportMintPda(token_mint).bump, mint |-> token_mint]

\* One create_support_mint_associated transaction; a failed one changes nothing.
CreateSupportMintAssociated ==
    \E owner \in Signers, token_mint \in TokenMints, mint_owner \in MintOwners :
        LET errors == ValidationErrors(ledger, owner, token_mint, mint_owner)
        IN  /\ IF errors = {}
               THEN /\ ledger' = [ledger EXCEPT ![token_mint] =
                                     Some(create_support_mint_associated(token_mint))]
                    /\ ix' = [owner |-> owner, token_mint |-> token_mint,
                              mint_owner |-> mint_owner, result |-> "Ok"]
               ELSE /\ ledger' = ledger
                    /\ \E e \in errors :
                          ix' = [owner |-> owner, token_mint |-> token_mint,
                                 mint_owner |-> mint_owner, result |-> e]
            /\ UNCHANGED <<cfg, nav, enum>>

InitAll ==
    /\ cfg = CfgIdle
    /\ nav = NavIdle
    /\ enum = [called |-> FALSE]
    /\ ledger = [m \in TokenMints |-> None]
    /\ ix = [result |-> "none"]

NextCfg == LoadCfg
SpecCfg == InitAll /\ [][NextCfg]_vars

NextNav == NavResolve \/ NavFetch \/ NavDecode
SpecNav == InitAll /\ [][NextNav]_vars

NextEnum == GetNftByOwner \/ GetAllNftByOwner
SpecEnum == InitAll /\ [][NextEnum]_vars

NextMint == CreateSupportMintAssociated
SpecMint == InitAll /\ [][NextMint]_vars

(***************************************************************************)
(* Claims about load_cfg (checked under SpecCfg).                          *)
(***************************************************************************)
CfgBothMints ==
    /\ cfg.called
    /\ cfg.result.outcome = "ok"
    /\ cfg.mint0_str # <<>>
    /\ cfg.mint1_str # <<>>

\* C1: mint-order invariance of load_cfg. For distinct mints A and B, a fixed
\* program and AMM config index, the call with (mint0=A, mint1=B) and the call
\* with (mint0=B, mint1=A) give the same pool_id_account and the same
\* tickarray_bitmap_extension, and the pool address is derived with the
\* lower-sorting mint as the first mint seed.
C1_MintOrderInvariance ==
    (CfgBothMints /\ cfg.mint0_str # cfg.mint1_str) =>
        LET a == ParsePubkey(cfg.mint0_str).val
            b == ParsePubkey(cfg.mint1_str).val
            lo == IF PubkeyGt(a, b) THEN b ELSE a
            hi == IF PubkeyGt(a, b) THEN a ELSE b
            swapped == load_cfg(cfg.program, cfg.mint1_str, cfg.mint0_str, cfg.index)
        IN  /\ swapped.outcome = "ok"
            /\ swapped.pool_id_account = cfg.result.pool_id_account
            /\ swapped.tickarray_bitmap_extension = cfg.result.tickarray_bitmap_extension
            /\ cfg.result.pool_id_account # None
            /\ Unwrap(cfg.result.pool_id_account).seeds =
                  <<POOL_SEED, cfg.result.amm_config_key, lo, hi>>
            /\ cfg.result.mint0 = Some(lo)
            /\ cfg.result.mint1 = Some(hi)

\* A call whose mint0 sorts above its mint1, so that the pair was swapped.
C1_Witness ==
    /\ CfgBothMints
    /\ PubkeyGt(ParsePubkey(cfg.mint0_str).val, ParsePubkey(cfg.mint1_str).val)
    /\ cfg.result.pool_id_account # None

(***************************************************************************)
(* Claims about the navigator (checked under SpecNav).                     *)
(***************************************************************************)
NavCalled == nav.pc # "idle"

\* Start indices of the resolved keys, in key order.
NavStartIndices ==
    [i \in 1..Len(nav.tick_array_keys) |-> StartIndexOfKey(nav.tick_array_keys[i])]

\* Offsets of all initialized tick arrays of the call's pool.
NavInitialized == nav.pool_state.tick_array_bitmap \cup nav.extension

NavSpan == tick_count(nav.pool_state.tick_spacing)

\* Floor of the current tick to the array span, by mathematical floor division.
NavFloorStart == (nav.pool_state.tick_current \div NavSpan) * NavSpan

\* C2: traversal bound. The navigator returns at most 6 tick arrays and their
\* start indices are strictly decreasing when zero_for_one and strictly
\* increasing otherwise (so none repeats).
C2_TraversalBound ==
    (nav.pc = "done") =>
        /\ Len(nav.tick_arrays) <= 6
        /\ \A i, j \in 1..Len(nav.tick_arrays) :
              i < j =>
                 IF nav.zero_for_one
                 THEN nav.tick_arrays[i].start_tick_index >
                      nav.tick_arrays[j].start_tick_index
                 ELSE nav.tick_arrays[i].start_tick_index <
                      nav.tick_arrays[j].start_tick_index

\* A return of 6 arrays from a pool that has more than 6 initialized arrays.
C2_Witness ==
    /\ nav.pc = "done"
    /\ Len(nav.tick_arrays) = 6
    /\ Cardinality(NavInitialized) > 6

\* C5 (as claimed): on a pool with zero initialized tick arrays the navigator
\* does not abort and returns an empty list of tick arrays.
C5_EmptyPoolReturnsEmpty ==
    (NavCalled /\ nav.pool_config.pool_id_account # None /\ NavInitialized = {}) =>
        /\ nav.pc # "panic"
        /\ nav.pc = "done" => nav.tick_arrays = <<>>

\* C8 (as claimed): a failed ledger read (the batched fetch fails, or an
\* account is reported not found) is answered with one request only and
\* never aborts the call.
C8_FetchFailureIsReturned ==
    (/\ nav.pc \in {"fetched", "done", "panic"}
     /\ \/ nav.fetch = "transport_error"
        \/ /\ nav.fetch = "answered"
           /\ \E i \in 1..Len(nav.tick_array_rsps) : nav.tick_array_rsps[i] = None) =>
        /\ nav.rpc_calls = 1
        /\ nav.pc # "panic"

\* The general half of C9: the first resolved array is the one holding the
\* current tick, its start being the floor of the tick to the array span,
\* whenever that array is initialized; otherwise it lies beyond that array in
\* the traversal direction.
NavFirstIsFloored ==
    (nav.pc = "resolved") =>
        /\ NavFloorStart <= nav.pool_state.tick_current
        /\ nav.pool_state.tick_current < NavFloorStart + NavSpan
        /\ (NavFloorStart \div NavSpan) \in NavInitialized =>
              NavStartIndices[1] = NavFloorStart
        /\ (NavFloorStart \div NavSpan) \notin NavInitialized =>
              IF nav.zero_for_one THEN NavStartIndices[1] < NavFloorStart
              ELSE NavStartIndices[1] > NavFloorStart

NavAtMinus120 ==
    /\ nav.pc = "resolved"
    /\ nav.pool_state.tick_current = -120
    /\ (NavFloorStart \div NavSpan) \in NavInitialized

C10_FetchOrdering ==
    /\ nav.pc = "idle" \/ nav.rpc_calls <= 1
    /\ nav.pc = "resolved" => nav.rpc_calls = 0
    /\ nav.pc = "resolved" =>
          /\ NavStartIndices[1] =
                get_first_initialized_tick_array(
                    nav.pool_state, nav.extension, nav.zero_for_one).val[2]
          /\ \A i \in 1..(Len(nav.tick_array_keys) - 1) :
                Some(NavStartIndices[i + 1]) =
                    next_initialized_tick_array_start_index(
                        nav.pool_state, nav.extension, NavStartIndices[i],
                        nav.zero_for_one)
    /\ nav.pc \in {"fetched", "done"} =>
          /\ nav.rpc_calls = 1
          /\ Len(nav.tick_array_rsps) = Len(nav.tick_array_keys)
    /\ nav.pc = "done" =>
          /\ Len(nav.tick_arrays) = Len(nav.tick_array_keys)
          /\ \A i \in 1..Len(nav.tick_arrays) :
                /\ nav.tick_arrays[i] =
                      deserialize_anchor_account(nav.tick_array_rsps[i][1]).val
                /\ nav.tick_arrays[i].start_tick_index = NavStartIndices[i]
                /\ nav.tick_arrays[i].pool_id =
                      Unwrap(nav.pool_config.pool_id_account)

\* A completed call that fetched several arrays with its single request.
C10_Witness ==
    /\ nav.pc = "done"
    /\ nav.rpc_calls = 1
    /\ Len(nav.tick_arrays) >= 3
    /\ ~nav.zero_for_one

(***************************************************************************)
(* Claims about the enumerator (checked under SpecEnum).                   *)
(***************************************************************************)
EnumByOwner == enum.called /\ enum.op = "by_owner" /\ enum.answers[1].ok

\* A record whose data, tag, body and string fields are all well formed.
WellFormed(rec) ==
    /\ rec.data = "json"
    /\ rec.program \in {"spl-token", "spl-token-2022"}
    /\ rec.parsed = "account"
    /\ ParsePubkey(rec.mint).ok
    /\ ParsePubkey(rec.pubkey).ok
    /\ ParseU64(rec.amount).ok
    /\ rec.close_authority # None => ParsePubkey(Unwrap(rec.close_authority)).ok

\* A well-formed record holding exactly one token of a zero-decimals mint.
Holding(rec) ==
    /\ WellFormed(rec)
    /\ rec.decimals = 0
    /\ ParseU64(rec.amount).val = 1

\* The entry the enumerator is to report for a holding.
EntryFor(rec, token_program) ==
    [key |-> ParsePubkey(rec.pubkey).val,
     program |-> token_program,
     position |-> [seeds |-> <<POSITION_SEED, ParsePubkey(rec.mint).val>>,
                   program |-> "amm_v3"],
     mint |-> ParsePubkey(rec.mint).val,
     amount |-> 1,
     decimals |-> 0]

HoldingsOf(list) == {i \in 1..Len(list) : Holding(list[i])}

\* C3: NFT filter correctness. On a list of well-formed token accounts the
\* call returns, and a token account is in the result iff its decimals are 0
\* and its amount is 1; every entry carries the token-account address, the
\* queried token program, the position address derived from the mint, the
\* mint, amount 1 and decimals 0.
C3_NftFilter ==
    (EnumByOwner /\ \A i \in 1..Len(enum.answers[1].val) :
                        WellFormed(enum.answers[1].val[i])) =>
        LET list == enum.answers[1].val
            out == enum.result.val
        IN  /\ enum.result.outcome = "ok"
            /\ Len(out) = Cardinality(HoldingsOf(list))
            /\ \A i \in 1..Len(list) :
                  (list[i].decimals = 0 /\ ParseU64(list[i].amount).val = 1)
                  <=> (\E j \in 1..Len(out) :
                          out[j] = EntryFor(list[i], enum.token_program))
            /\ \A j \in 1..Len(out) :
                  \E i \in HoldingsOf(list) :
                      out[j] = EntryFor(list[i], enum.token_program)

\* A list with a holding, a decimals-0/amount-2 account and a
\* decimals-9/amount-1 account, of which one entry is reported.
C3_Witness ==
    /\ EnumByOwner
    /\ Len(enum.answers[1].val) = 3
    /\ \A i \in 1..3 : WellFormed(enum.answers[1].val[i])
    /\ \E i, j, k \in 1..3 :
          /\ Holding(enum.answers[1].val[i])
          /\ enum.answers[1].val[j].decimals = 0
          /\ enum.answers[1].val[j].amount = <<"2">>
          /\ enum.answers[1].val[k].decimals = 9
          /\ enum.answers[1].val[k].amount = <<"1">>
    /\ enum.result.outcome = "ok"
    /\ Len(enum.result.val) = 1

\* C6 (as claimed): whatever records the list holds, the call returns and
\* reports every holding among the well-formed records.
C6_MalformedRecordsSkipped ==
    EnumByOwner =>
        /\ enum.result.outcome = "ok"
        /\ \A i \in HoldingsOf(enum.answers[1].val) :
              \E j \in 1..Len(enum.result.val) :
                  enum.result.val[j] =
                      EntryFor(enum.answers[1].val[i], enum.token_program)

EnumAll == enum.called /\ enum.op = "all" /\ enum.result.outcome = "ok"

\* No token-account/mint pair is listed under both variants.
NoSharedPair ==
    \A i \in 1..Len(enum.answers[1].val), j \in 1..Len(enum.answers[2].val) :
        <<enum.answers[1].val[i].pubkey, enum.answers[1].val[i].mint>> #
        <<enum.answers[2].val[j].pubkey, enum.answers[2].val[j].mint>>

\* C4: cross-standard union. The result is the positions found under the
\* legacy token program followed by those found under token-2022; every
\* holding under either variant is present; and when no token-account/mint
\* pair is listed under both variants, no pair is reported twice.
C4_CrossStandardUnion ==
    EnumAll =>
        LET l1 == enum.answers[1].val
            l2 == enum.answers[2].val
            n1 == Cardinality(HoldingsOf(l1))
            n2 == Cardinality(HoldingsOf(l2))
            out == enum.result.val
        IN  /\ enum.rpc_calls = 2
            /\ Len(out) = n1 + n2
            /\ \A j \in 1..Len(out) :
                  IF j <= n1
                  THEN \E i \in HoldingsOf(l1) : out[j] = EntryFor(l1[i], spl_token_id)
                  ELSE \E i \in HoldingsOf(l2) : out[j] = EntryFor(l2[i], spl_token_2022_id)
            /\ \A i \in HoldingsOf(l1) :
                  \E j \in 1..n1 : out[j] = EntryFor(l1[i], spl_token_id)
            /\ \A i \in HoldingsOf(l2) :
                  \E j \in (n1 + 1)..Len(out) : out[j] = EntryFor(l2[i], spl_token_2022_id)
            /\ NoSharedPair =>
                  \A j, k \in 1..Len(out) :
                      j # k => <<out[j].key, out[j].mint>> # <<out[k].key, out[k].mint>>

\* A listing with holdings under both variants.
C4_Witness ==
    /\ EnumAll
    /\ NoSharedPair
    /\ HoldingsOf(enum.answers[1].val) # {}
    /\ HoldingsOf(enum.answers[2].val) # {}
    /\ Len(enum.result.val) >= 2

(***************************************************************************)
(* Claims about support-mint registration (checked under SpecMint).        *)
(***************************************************************************)
\* C7: create-once and immutable. An entry goes from absent to present only
\* through a call signed by the admin or the designated support-mint owner
\* with the mint owned by token-2022; any other signer or mint owner is
\* rejected with NotApproved and leaves the entry absent; a present entry
\* records its mint and derivation bump; a further create call for the mint
\* fails; and no call changes or removes a present entry.
C7_CreateOnce ==
    [][\A m \in TokenMints :
          /\ (ledger[m] = None /\ ledger'[m] # None) =>
                /\ ix'.token_mint = m
                /\ ix'.owner \in {admin_ID, create_support_mint_associated_owner_ID}
                /\ ix'.mint_owner = token_2022_ID
                /\ ix'.result = "Ok"
                /\ Unwrap(ledger'[m]).mint = m
                /\ Unwrap(ledger'[m]).bump = SupportMintPda(m).bump
          /\ (/\ ledger[m] = None
              /\ ix'.token_mint = m
              /\ \/ ix'.owner \notin {admin_ID, create_support_mint_associated_owner_ID}
                 \/ ix'.mint_owner # token_2022_ID) =>
                /\ ix'.result = "NotApproved"
                /\ ledger'[m] = None
          /\ (ledger[m] # None /\ ix'.token_mint = m) => ix'.result # "Ok"
          /\ ledger[m] # None => ledger'[m] = ledger[m]
      ]_vars

\* A registered mint whose second create call was refused.
C7_Witness ==
    /\ ix.result = "AccountAlreadyInUse"
    /\ ix.owner = admin_ID
    /\ ix.mint_owner = token_2022_ID
    /\ ledger[ix.token_mint] # None
    /\ Unwrap(ledger[ix.token_mint]).mint = ix.token_mint

====
